---- MODULE Spec2Model ----
(***************************************************************************)
(* A model of email_client_wx.py: the account store (accounts.txt), the    *)
(* account operations of EmailClientFrame, the IMAP refresh and the SMTP   *)
(* send.                                                                   *)
(*                                                                         *)
(* Text is a sequence of one-character strings, so that strip(), split(),  *)
(* startswith(), int() and str() are computed and not assumed.             *)
(* AccountConfig objects live in a heap (ref -> fields); a ref of 0 is     *)
(* Python's None.  A dict is an insertion-ordered sequence of <<key, ref>>.*)
(***************************************************************************)
EXTENDS Integers, Sequences, FiniteSets, TLC

VARIABLES
    store,       \* accounts.txt: [exists |-> BOOLEAN, lines |-> Seq(text)]
    heap,        \* the live AccountConfig objects: heap[ref] is the fields of object ref
    accounts,    \* self.accounts: sequence of <<name, ref>> in insertion order
    active,      \* self.active_account: a ref, or 0 for None
    messages,    \* self.messages: sequence of [id |-> msg_id, src |-> ref fetched from]
    modal,       \* the SettingsDialog that is open: "none", "add" or "edit"
    dlgAccount,  \* SettingsDialog.account: the ref the open dialog edits, else 0
    old_name,    \* on_edit_active_account's local old_name while its dialog is open
    yielding,    \* the on_refresh calls waiting in wx.GetApp().Yield(), innermost last:
                 \* [acc |-> the call's local acc, sent |-> the commands it has sent so far]
    mailbox,     \* the server's INBOX: what FETCH answers for identifier i, for i in 1..Len(mailbox)
    imap,        \* the commands the handler that ran last sent on its IMAP connection, in order
    server,      \* the commands the handler that ran last sent on its SMTP connection, in order
    last         \* the step that ran last, what it showed the user, and what it started from

vars == <<store, heap, accounts, active, messages, modal, dlgAccount, old_name,
          yielding, mailbox, imap, server, last>>

-----------------------------------------------------------------------------
(* Text *)

CodePoint ==
    [c \in {" ", "0", "1", "2", "3", "4", "5", "6", "7", "8", "9", "=", "[", "]", "_",
            "a", "b", "c", "e", "i", "l", "m", "n", "o", "p", "r", "s", "t", "u",
            "v", "w", "d", "x", ","} |->
        CASE c = " " -> 32 [] c = "," -> 44
          [] c = "0" -> 48 [] c = "1" -> 49 [] c = "2" -> 50 [] c = "3" -> 51 [] c = "4" -> 52
          [] c = "5" -> 53 [] c = "6" -> 54 [] c = "7" -> 55 [] c = "8" -> 56
          [] c = "9" -> 57 [] c = "=" -> 61 [] c = "[" -> 91 [] c = "]" -> 93
          [] c = "_" -> 95 [] c = "a" -> 97 [] c = "b" -> 98 [] c = "c" -> 99
          [] c = "d" -> 100 [] c = "e" -> 101 [] c = "i" -> 105 [] c = "l" -> 108
          [] c = "m" -> 109 [] c = "n" -> 110 [] c = "o" -> 111 [] c = "p" -> 112
          [] c = "r" -> 114 [] c = "s" -> 115 [] c = "t" -> 116 [] c = "u" -> 117
          [] c = "v" -> 118 [] c = "w" -> 119 [] c = "x" -> 120]

\* str.__lt__: code point order, a proper prefix sorts first
RECURSIVE StrLess(_, _)
StrLess(s, t) ==
    IF t = <<>> THEN FALSE
    ELSE IF s = <<>> THEN TRUE
    ELSE IF Head(s) = Head(t) THEN StrLess(Tail(s), Tail(t))
    ELSE CodePoint[Head(s)] < CodePoint[Head(t)]

\* sorted(keys): ascending by StrLess
RECURSIVE Sorted(_)
Sorted(S) ==
    IF S = {} THEN <<>>
    ELSE LET m == CHOOSE x \in S : \A y \in S \ {x} : StrLess(x, y)
         IN  <<m>> \o Sorted(S \ {m})

RECURSIVE LStrip(_)
LStrip(s) == IF s # <<>> /\ Head(s) = " " THEN LStrip(Tail(s)) ELSE s

RECURSIVE RStrip(_)
RStrip(s) ==
    IF s # <<>> /\ s[Len(s)] = " " THEN RStrip(SubSeq(s, 1, Len(s) - 1)) ELSE s

\* str.strip()
Strip(s) == RStrip(LStrip(s))

StartsWith(s, p) == Len(s) >= Len(p) /\ SubSeq(s, 1, Len(p)) = p

EndsWith(s, p) == Len(s) >= Len(p) /\ SubSeq(s, Len(s) - Len(p) + 1, Len(s)) = p

\* the index of the first c in s, 0 when there is none
RECURSIVE Find(_, _, _)
Find(s, c, i) ==
    IF i > Len(s) THEN 0 ELSE IF s[i] = c THEN i ELSE Find(s, c, i + 1)

Digits == {"0", "1", "2", "3", "4", "5", "6", "7", "8", "9"}

\* whether int(s) accepts s (decimal digits; the model's texts hold no sign)
IsInt(s) == s # <<>> /\ \A i \in 1..Len(s) : s[i] \in Digits

\* int(s) for a text int() accepts
RECURSIVE IntOf(_)
IntOf(s) ==
    IF s = <<>> THEN 0
    ELSE 10 * IntOf(SubSeq(s, 1, Len(s) - 1)) + (CodePoint[s[Len(s)]] - CodePoint["0"])

DigitChar(d) == CHOOSE c \in Digits : CodePoint[c] - CodePoint["0"] = d

\* str(n) for n >= 0
RECURSIVE StrOf(_)
StrOf(n) == IF n < 10 THEN <<DigitChar(n)>> ELSE StrOf(n \div 10) \o <<DigitChar(n % 10)>>

-----------------------------------------------------------------------------
(* dict: an insertion-ordered sequence of <<key, value>> *)

DictKeys(d) == {d[i][1] : i \in 1..Len(d)}

DictHas(d, k) == k \in DictKeys(d)

DictGet(d, k) == d[CHOOSE i \in 1..Len(d) : d[i][1] = k][2]

\* d[k] = v: an existing key keeps its position
DictSet(d, k, v) ==
    IF DictHas(d, k)
    THEN [i \in 1..Len(d) |-> IF d[i][1] = k THEN <<k, v>> ELSE d[i]]
    ELSE Append(d, <<k, v>>)

\* del d[k], for a key of d
DictDel(d, k) ==
    LET i == CHOOSE j \in 1..Len(d) : d[j][1] = k
    IN  SubSeq(d, 1, i - 1) \o SubSeq(d, i + 1, Len(d))

\* d.get(k, default)
DictGetOr(d, k, default) == IF DictHas(d, k) THEN DictGet(d, k) ELSE default

-----------------------------------------------------------------------------
(* AccountConfig and accounts.txt *)

DefaultImapPort == 993
DefaultSmtpPort == 587

KeyName       == <<"n", "a", "m", "e">>
KeyEmail      == <<"e", "m", "a", "i", "l">>
KeyPassword   == <<"p", "a", "s", "s", "w", "o", "r", "d">>
KeyImapServer == <<"i", "m", "a", "p", "_", "s", "e", "r", "v", "e", "r">>
KeyImapPort   == <<"i", "m", "a", "p", "_", "p", "o", "r", "t">>
KeySmtpServer == <<"s", "m", "t", "p", "_", "s", "e", "r", "v", "e", "r">>
KeySmtpPort   == <<"s", "m", "t", "p", "_", "p", "o", "r", "t">>

HeaderPrefix == <<"[", "a", "c", "c", "o", "u", "n", "t", " ">>
HeaderSuffix == <<"]">>

\* AccountConfig(): the constructor's defaults
AccountConfig ==
    [name |-> <<>>, email |-> <<>>, password |-> <<>>,
     imap_server |-> <<>>, imap_port |-> DefaultImapPort,
     smtp_server |-> <<>>, smtp_port |-> DefaultSmtpPort]

\* a variant that writes each port under the other's key
to_dict_Swapped(acc) ==
    << <<KeyName, acc.name>>,
       <<KeyEmail, acc.email>>,
       <<KeyPassword, acc.password>>,
       <<KeyImapServer, acc.imap_server>>,
       <<KeyImapPort, StrOf(acc.smtp_port)>>,
       <<KeySmtpServer, acc.smtp_server>>,
       <<KeySmtpPort, StrOf(acc.imap_port)>> >>

\* AccountConfig.to_dict: string values, in the order the dict literal gives
to_dict(acc) ==
    << <<KeyName, acc.name>>,
       <<KeyEmail, acc.email>>,
       <<KeyPassword, acc.password>>,
       <<KeyImapServer, acc.imap_server>>,
       <<KeyImapPort, StrOf(acc.imap_port)>>,
       <<KeySmtpServer, acc.smtp_server>>,
       <<KeySmtpPort, StrOf(acc.smtp_port)>> >>

\* int(d.get(key, str(default)) or default)
PortText(d, key, default) ==
    LET v == DictGetOr(d, key, StrOf(default)) IN IF v = <<>> THEN StrOf(default) ELSE v

\* whether from_dict returns (int() raises ValueError on a non-numeric port)
from_dict_ok(d) ==
    /\ IsInt(Strip(PortText(d, KeyImapPort, DefaultImapPort)))
    /\ IsInt(Strip(PortText(d, KeySmtpPort, DefaultSmtpPort)))

\* AccountConfig.from_dict
from_dict(d) ==
    [name        |-> DictGetOr(d, KeyName, <<>>),
     email       |-> DictGetOr(d, KeyEmail, <<>>),
     password    |-> DictGetOr(d, KeyPassword, <<>>),
     imap_server |-> DictGetOr(d, KeyImapServer, <<>>),
     imap_port   |-> IntOf(Strip(PortText(d, KeyImapPort, DefaultImapPort))),
     smtp_server |-> DictGetOr(d, KeySmtpServer, <<>>),
     smtp_port   |-> IntOf(Strip(PortText(d, KeySmtpPort, DefaultSmtpPort)))]

\* the lines save_all_accounts writes for one account
RECURSIVE BlockLines(_, _)
BlockLines(d, i) ==
    IF i > Len(d) THEN << <<>> >>
    ELSE (IF d[i][1] = KeyName THEN <<>> ELSE << d[i][1] \o <<"=">> \o d[i][2] >>)
         \o BlockLines(d, i + 1)

\* save_all_accounts: the file's lines for the account objects accs (a sequence), in order
RECURSIVE save_all_accounts(_)
save_all_accounts(accs) ==
    IF accs = <<>> THEN <<>>
    ELSE << HeaderPrefix \o Head(accs).name \o HeaderSuffix >>
         \o BlockLines(to_dict(Head(accs)), 1)
         \o save_all_accounts(Tail(accs))

\* load_all_accounts' loop from line i on; current_name of <<>> stands for None and ""
\* (both are falsy, which is all the code asks of it).
\* The result is [ok |-> whether no from_dict raised, accounts |-> dict name -> AccountConfig fields].
RECURSIVE LoadLoop(_, _, _, _, _)
LoadLoop(lines, i, accs, current, current_name) ==
    LET flush_ok == ~(current_name # <<>> /\ current # <<>>) \/ from_dict_ok(current)
        flushed  == IF current_name # <<>> /\ current # <<>>
                    THEN DictSet(accs, current_name, from_dict(current))
                    ELSE accs
    IN
    IF i > Len(lines)
    THEN IF flush_ok THEN [ok |-> TRUE, accounts |-> flushed]
                     ELSE [ok |-> FALSE, accounts |-> accs]
    ELSE
        LET line == Strip(lines[i]) IN
        IF line = <<>> THEN LoadLoop(lines, i + 1, accs, current, current_name)
        ELSE IF StartsWith(line, HeaderPrefix) /\ EndsWith(line, HeaderSuffix)
        THEN IF ~flush_ok THEN [ok |-> FALSE, accounts |-> accs]
             ELSE LET nm == SubSeq(line, Len(HeaderPrefix) + 1, Len(line) - 1)
                  IN  LoadLoop(lines, i + 1, flushed, << <<KeyName, nm>> >>, nm)
        ELSE LET eq == Find(line, "=", 1) IN
             IF eq > 0
             THEN LoadLoop(lines, i + 1, accs,
                           DictSet(current, Strip(SubSeq(line, 1, eq - 1)),
                                   Strip(SubSeq(line, eq + 1, Len(line)))),
                           current_name)
             ELSE LoadLoop(lines, i + 1, accs, current, current_name)

\* load_all_accounts: a missing file is an empty dict
load_all_accounts(st) ==
    IF ~st.exists THEN [ok |-> TRUE, accounts |-> <<>>]
    ELSE LoadLoop(st.lines, 1, <<>>, <<>>, <<>>)

-----------------------------------------------------------------------------
(* Objects *)

None == 0

\* a fresh object's ref
NewRef(h) == Len(h) + 1

\* s without the None entries and without the repetitions of an entry
RECURSIVE Distinct(_, _)
Distinct(s, seen) ==
    IF s = <<>> THEN <<>>
    ELSE IF Head(s) = None \/ Head(s) \in seen THEN Distinct(Tail(s), seen)
    ELSE <<Head(s)>> \o Distinct(Tail(s), seen \cup {Head(s)})

\* the src of a cached message whose account object has been freed
Gone == -1

\* The state a handler leaves: the objects no reference holds are freed (reference
\* counting), and the objects left are numbered in the order in which the dict, then
\* self.active_account, the dialog and the waiting refreshes reach them.  A ref is only
\* ever compared with another ref, so the numbering is free.  The src of a cached
\* message is a note of where it came from and keeps no object alive.
Renumbering(h, live) ==
    [r \in {Gone, None} \cup (1..Len(h)) |->
        IF r = None THEN None
        ELSE IF \E i \in 1..Len(live) : live[i] = r
             THEN CHOOSE i \in 1..Len(live) : live[i] = r
             ELSE Gone]

Commit(h, accs, act, dlg, yld, msgs) ==
    \E live \in { Distinct([i \in 1..Len(accs) |-> accs[i][2]] \o <<act, dlg>>
                                \o [i \in 1..Len(yld) |-> yld[i].acc], {}) } :
    \E at \in { Renumbering(h, live) } :
        /\ heap' = [i \in 1..Len(live) |-> h[live[i]]]
        /\ accounts' = [i \in 1..Len(accs) |-> <<accs[i][1], at[accs[i][2]]>>]
        /\ active' = at[act]
        /\ dlgAccount' = at[dlg]
        /\ yielding' = [i \in 1..Len(yld) |-> [yld[i] EXCEPT !.acc = at[yld[i].acc]]]
        /\ messages' = [i \in 1..Len(msgs) |-> [msgs[i] EXCEPT !.src = at[msgs[i].src]]]

\* the AccountConfig objects of the dict, in iteration order (accounts.values())
Values(accs, h) == [i \in 1..Len(accs) |-> h[accs[i][2]]]

\* save_all_accounts(self.accounts) as the file it leaves
Saved(accs, h) == [exists |-> TRUE, lines |-> save_all_accounts(Values(accs, h))]

\* what a handler leaves on the screen: the handler, and the text of its message box or
\* the text it put in the body pane ("" for neither); with it, self.active_account and
\* len(self.messages) as the handler found them
Report(op, result) ==
    [op |-> op, result |-> result, active |-> active, count |-> Len(messages)]

-----------------------------------------------------------------------------
(* Inputs *)

\* the contents of the SettingsDialog's text controls when Save is clicked
Form(name, email, password, imap_server, imap_port, smtp_server, smtp_port) ==
    [txt_name |-> name, txt_email |-> email, txt_password |-> password,
     txt_imap_server |-> imap_server, txt_imap_port |-> imap_port,
     txt_smtp_server |-> smtp_server, txt_smtp_port |-> smtp_port]

\* a form that passes on_save but for its name, with implicit-TLS ports
FormA(name) ==
    Form(name, <<"a">>, <<"a">>, <<"a">>, <<"9", "9", "3">>, <<"a">>, <<"4", "6", "5">>)

\* the forms the user submits: names with and without blanks around them, a second
\* set of field values with STARTTLS ports and a blank password, a blank email, a port
\* that is no number
Forms ==
    { FormA(<<" ">>), FormA(<<"a", " ">>), FormA(<<"a", "b">>), FormA(<<"b">>),
      Form(<<" ", "b">>, <<" ", "b">>, <<" ">>, <<"b", " ">>, <<" ", "1", "4", "3">>,
           <<"b">>, <<"5", "8", "7">>),
      Form(<<"a", "b">>, <<" ">>, <<"a">>, <<"a">>, <<"9", "9", "3">>, <<"a">>, <<"4", "6", "5">>),
      Form(<<"a", "b">>, <<"a">>, <<"a">>, <<"a">>, <<"x">>, <<"a">>, <<"4", "6", "5">>) }

\* the account names there are
Names == { Strip(f.txt_name) : f \in Forms } \ { <<>> }

\* an account as the program itself stores it
StoredAccount(name, email, imap_port) ==
    [name |-> name, email |-> email, password |-> <<"a">>,
     imap_server |-> <<"a">>, imap_port |-> imap_port,
     smtp_server |-> <<"a">>, smtp_port |-> DefaultSmtpPort]

-----------------------------------------------------------------------------
(* SettingsDialog *)

\* SettingsDialog.on_save: the message of the validation that fails, "" when none does
SaveError(form) ==
    IF Strip(form.txt_name) = <<>> THEN "Account name cannot be empty."
    ELSE IF Strip(form.txt_email) = <<>> THEN "Email cannot be empty."
    ELSE IF ~(IsInt(Strip(form.txt_imap_port)) /\ IsInt(Strip(form.txt_smtp_port)))
         THEN "IMAP and SMTP ports must be integers."
    ELSE ""

\* SettingsDialog.on_save: the fields it assigns to self.account
SavedFields(form) ==
    [name        |-> Strip(form.txt_name),
     email       |-> Strip(form.txt_email),
     password    |-> form.txt_password,
     imap_server |-> Strip(form.txt_imap_server),
     imap_port   |-> IntOf(Strip(form.txt_imap_port)),
     smtp_server |-> Strip(form.txt_smtp_server),
     smtp_port   |-> IntOf(Strip(form.txt_smtp_port))]

-----------------------------------------------------------------------------
(* Account operations *)

\* on_add_account up to dlg.ShowModal(): a new AccountConfig() in a SettingsDialog
on_add_account ==
    /\ modal = "none"
    /\ Commit(Append(heap, AccountConfig), accounts, active, NewRef(heap), yielding, messages)
    /\ modal' = "add"
    /\ imap' = <<>>
    /\ server' = <<>>
    /\ last' = Report("on_add_account", "Add Account")
    /\ UNCHANGED <<store, old_name, mailbox>>

\* a variant that makes every new account the active one
ActiveAfterAdd_Always(act, new_acc) == new_acc

\* if there was no active account, use the new one
ActiveAfterAdd(act, new_acc) == IF act = None THEN new_acc ELSE act

\* on_add_account after ShowModal() returned wx.ID_OK, h being the heap on_save left
AddAccountOK(h) ==
    LET new_acc == dlgAccount
        name    == h[new_acc].name
    IN
    IF name = <<>> THEN
        /\ last' = Report("on_add_account", "Account name cannot be empty.")
        /\ Commit(h, accounts, active, None, yielding, messages)
        /\ UNCHANGED store
    ELSE IF name \in DictKeys(accounts) THEN
        /\ last' = Report("on_add_account", "An account with this name already exists.")
        /\ Commit(h, accounts, active, None, yielding, messages)
        /\ UNCHANGED store
    ELSE
        LET accs == DictSet(accounts, name, new_acc) IN
        /\ store' = Saved(accs, h)
        /\ Commit(h, accs, ActiveAfterAdd(active, new_acc), None, yielding, messages)
        /\ last' = Report("on_add_account",
                          IF active = None THEN "New account added. Use Refresh to load emails."
                          ELSE "")

\* the dict after on_edit_active_account moved the key old to new
MoveKey(accs, old, new, ref) == DictSet(DictDel(accs, old), new, ref)

\* a variant that never finds the name in use
NameTaken_Never(accs, new_name, act) == FALSE

\* whether a different account is stored under new_name
NameTaken(accs, new_name, act) == DictHas(accs, new_name) /\ DictGet(accs, new_name) # act

\* on_edit_active_account after ShowModal() returned wx.ID_OK, h being the heap on_save left
EditAccountOK(h) ==
    LET new_name == IF h[active].name # <<>> THEN h[active].name ELSE old_name IN
    IF new_name = old_name THEN
        /\ store' = Saved(accounts, h)
        /\ Commit(h, accounts, active, None, yielding, messages)
        /\ last' = Report("on_edit_active_account", "")
    ELSE IF NameTaken(accounts, new_name, active) THEN
        LET kept == [h EXCEPT ![active].name = old_name] IN
        /\ store' = Saved(accounts, kept)
        /\ Commit(kept, accounts, active, None, yielding, messages)
        /\ last' = Report("on_edit_active_account",
                          "Another account already uses that name. Keeping old name.")
    ELSE IF ~DictHas(accounts, old_name) THEN
        \* del self.accounts[old_name] raises KeyError: the handler ends there
        /\ Commit(h, accounts, active, None, yielding, messages)
        /\ last' = Report("on_edit_active_account", "KeyError")
        /\ UNCHANGED store
    ELSE
        LET accs == MoveKey(accounts, old_name, new_name, active) IN
        /\ store' = Saved(accs, h)
        /\ Commit(h, accs, active, None, yielding, messages)
        /\ last' = Report("on_edit_active_account", "")

\* SettingsDialog.on_save on the Save button, and what the handler that opened the
\* dialog does once ShowModal() has returned wx.ID_OK
on_save(form) ==
    /\ modal # "none"
    /\ IF SaveError(form) # "" THEN
            \* the dialog stays open
            /\ last' = Report("on_save", SaveError(form))
            /\ UNCHANGED <<store, heap, accounts, active, messages, yielding,
                           modal, dlgAccount, old_name>>
       ELSE
            /\ LET h == [heap EXCEPT ![dlgAccount] = SavedFields(form)] IN
                IF modal = "add" THEN AddAccountOK(h) ELSE EditAccountOK(h)
            /\ modal' = "none"
            /\ old_name' = <<>>
    /\ imap' = <<>>
    /\ server' = <<>>
    /\ UNCHANGED mailbox

\* the dialog's Cancel button: ShowModal() returns wx.ID_CANCEL and the handler only
\* destroys the dialog
on_cancel ==
    /\ modal # "none"
    /\ modal' = "none"
    /\ old_name' = <<>>
    /\ Commit(heap, accounts, active, None, yielding, messages)
    /\ imap' = <<>>
    /\ server' = <<>>
    /\ last' = Report(IF modal = "add" THEN "on_add_account" ELSE "on_edit_active_account",
                      "cancel")
    /\ UNCHANGED <<store, mailbox>>

\* a variant that never takes the deleted account for the active one
IsActiveAccount_Never(h, act, selected) == FALSE

\* a variant that takes every deleted account for the active one
IsActiveAccount_Any(h, act, selected) == act # None

\* whether on_delete_account takes `selected` for the active account
IsActiveAccount(h, act, selected) == act # None /\ h[act].name = selected

\* on_delete_account, the user choosing `selected` in the SingleChoiceDialog and
\* pressing OK (ok) or Cancel
on_delete_account(selected, ok) ==
    /\ modal = "none"
    /\ IF accounts = <<>> THEN
            /\ last' = Report("on_delete_account", "No accounts to delete.")
            /\ UNCHANGED <<store, heap, accounts, active, messages, dlgAccount, yielding>>
       ELSE
            /\ selected \in DictKeys(accounts)
            /\ IF ~ok THEN
                    /\ last' = Report("on_delete_account", "cancel")
                    /\ UNCHANGED <<store, heap, accounts, active, messages, dlgAccount, yielding>>
               ELSE
                    LET isActive == IsActiveAccount(heap, active, selected)
                        accs == DictDel(accounts, selected)
                    IN
                    /\ Commit(heap, accs,
                              IF isActive THEN None ELSE active, dlgAccount, yielding,
                              IF isActive THEN <<>> ELSE messages)
                    /\ store' = Saved(accs, heap)
                    /\ last' = Report("on_delete_account",
                                      IF isActive
                                      THEN "Active account deleted. Add or switch to another account."
                                      ELSE "")
    /\ imap' = <<>>
    /\ server' = <<>>
    /\ UNCHANGED <<modal, old_name, mailbox>>

\* a variant that switches to the first account of the dict
SwitchTo_First(accs, account_name) == accs[1][2]

\* self.accounts[account_name]
SwitchTo(accs, account_name) == DictGet(accs, account_name)

\* on_switch_account(account_name)
on_switch_account(account_name) ==
    /\ modal = "none"
    /\ IF ~DictHas(accounts, account_name) THEN
            /\ last' = Report("on_switch_account", "Account not found.")
            /\ UNCHANGED <<heap, accounts, active, messages, dlgAccount, yielding>>
       ELSE
            /\ Commit(heap, accounts, SwitchTo(accounts, account_name), dlgAccount, yielding, <<>>)
            /\ last' = Report("on_switch_account", "Switched to account. Click Refresh to load emails.")
    /\ imap' = <<>>
    /\ server' = <<>>
    /\ UNCHANGED <<store, modal, old_name, mailbox>>

\* on_edit_active_account up to dlg.ShowModal(): the active account in a SettingsDialog
on_edit_active_account ==
    /\ modal = "none"
    /\ IF active = None THEN
            /\ last' = Report("on_edit_active_account", "No active account to edit.")
            /\ UNCHANGED <<modal, dlgAccount, old_name>>
       ELSE
            /\ old_name' = heap[active].name
            /\ dlgAccount' = active
            /\ modal' = "edit"
            /\ last' = Report("on_edit_active_account", "Edit Active Account")
    /\ imap' = <<>>
    /\ server' = <<>>
    /\ UNCHANGED <<store, heap, accounts, active, messages, yielding, mailbox>>

-----------------------------------------------------------------------------
(* IMAP fetch *)

ImapSslPort == 993
FetchLimit == 20

\* the depth to which on_refresh calls nest inside one another's Yield()
MaxYield == 1

\* what the server holds for one identifier, by the answer FETCH gets for it
FetchKinds == {"ok", "no", "empty", "none", "malformed", "raise"}

\* imap.fetch(msg_id, "(RFC822)"): whether it raises, else (status, msg_data);
\* an element of msg_data is None, a (header, bytes) pair or a lone bytes object
fetch(kind) ==
    CASE kind = "ok"        -> [raises |-> FALSE, status |-> "OK", msg_data |-> <<"pair", "bytes">>]
      [] kind = "no"        -> [raises |-> FALSE, status |-> "NO", msg_data |-> <<"bytes">>]
      [] kind = "empty"     -> [raises |-> FALSE, status |-> "OK", msg_data |-> <<>>]
      [] kind = "none"      -> [raises |-> FALSE, status |-> "OK", msg_data |-> <<"None">>]
      [] kind = "malformed" -> [raises |-> FALSE, status |-> "OK", msg_data |-> <<"bytes">>]
      [] kind = "raise"     -> [raises |-> TRUE, status |-> "", msg_data |-> <<>>]

\* where the server fails a session before the first FETCH ("" for nowhere) and
\* whether it accepts STARTTLS
FailPoints == {"", "connect", "login", "select_no", "select_raise", "search_no", "search_raise"}
Scenarios == [fail : FailPoints, starttls : BOOLEAN]

\* a command sent on the connection and whether the server accepted it
Cmd(c, arg, ok) == [cmd |-> c, arg |-> arg, ok |-> ok]

\* a variant that takes ids[:n]
LastN_First(ids, n) == SubSeq(ids, 1, IF Len(ids) > n THEN n ELSE Len(ids))

\* ids[-n:]
LastN(ids, n) == SubSeq(ids, IF Len(ids) > n THEN Len(ids) - n + 1 ELSE 1, Len(ids))

\* reversed(ids)
Reversed(ids) == [i \in 1..Len(ids) |-> ids[Len(ids) + 1 - i]]

\* whether on_refresh skips the message of a fetch answer r
Skipped(r) == r.status # "OK" \/ r.msg_data = <<>> \/ r.msg_data[1] = "None"

\* the loop over reversed(latest_ids), from position k on: the messages appended, the
\* commands sent, and the title of the error box if an exception ended the loop ("" if none)
RECURSIVE FetchLoop(_, _, _, _, _, _)
FetchLoop(box, acc, todo, k, msgs, log) ==
    IF k > Len(todo) THEN [messages |-> msgs, log |-> log, error |-> ""]
    ELSE
        LET msg_id == todo[k]
            r      == fetch(box[msg_id])
        IN
        IF r.raises
        THEN [messages |-> msgs, log |-> Append(log, Cmd("FETCH", msg_id, FALSE)),
              error |-> "IMAP Error"]
        ELSE
            LET sent == Append(log, Cmd("FETCH", msg_id, r.status = "OK")) IN
            IF Skipped(r)
            THEN FetchLoop(box, acc, todo, k + 1, msgs, sent)
            ELSE IF r.msg_data[1] # "pair"
            THEN \* msg_data[0][1] is an int: email.message_from_bytes raises
                 [messages |-> msgs, log |-> sent, error |-> "Error"]
            ELSE FetchLoop(box, acc, todo, k + 1,
                           Append(msgs, [id |-> msg_id, src |-> acc]), sent)

\* the two commands that end a session
Closed(log) == log \o << Cmd("CLOSE", 0, TRUE), Cmd("LOGOUT", 0, TRUE) >>

\* a variant that leaves self.messages as it was
EmptyInbox_Keep(msgs, log) ==
    [messages |-> msgs, log |-> Closed(log), result |-> "INBOX is empty."]

\* the empty INBOX: self.messages.clear(), close, logout, return
EmptyInbox(msgs, log) ==
    [messages |-> <<>>, log |-> Closed(log), result |-> "INBOX is empty."]

\* a variant that empties self.messages when the login is rejected
LoginRejected_Clears(msgs, log) == [messages |-> <<>>, log |-> log, result |-> "IMAP Error"]

\* imap.login raises imaplib.IMAP4.error: the except clause shows the box, and that is all
LoginRejected(msgs, log) == [messages |-> msgs, log |-> log, result |-> "IMAP Error"]

\* a variant whose except clauses empty self.messages
Raised_Clears(msgs, log, title) == [messages |-> <<>>, log |-> log, result |-> title]

\* an exception raised by the connect, by SELECT or by SEARCH: an except clause shows the
\* box titled `title`, and that is all
Raised(msgs, log, title) == [messages |-> msgs, log |-> log, result |-> title]

\* on_refresh from the connect on, for the account object acc (a ref), the server
\* behaving as sc and holding box: the new self.messages, the commands sent, and
\* what the user is shown
refresh(h, acc, sc, box, msgs) ==
    LET ssl     == h[acc].imap_port = ImapSslPort
        opened  == IF ssl THEN << Cmd("IMAP4_SSL", 0, TRUE) >>
                   ELSE << Cmd("IMAP4", 0, TRUE), Cmd("STARTTLS", 0, sc.starttls) >>
        login   == Append(opened, Cmd("LOGIN", <<h[acc].email, h[acc].password>>,
                                      sc.fail # "login"))
        select  == Append(login, Cmd("SELECT", 0, sc.fail \notin {"select_no", "select_raise"}))
        search  == Append(select, Cmd("SEARCH", 0, sc.fail \notin {"search_no", "search_raise"}))
        ids     == [i \in 1..Len(box) |-> i]
    IN
    IF sc.fail = "connect" THEN Raised(msgs, <<>>, "Error")
    ELSE IF sc.fail = "login" THEN LoginRejected(msgs, login)
    ELSE IF sc.fail = "select_raise" THEN Raised(msgs, select, "IMAP Error")
    ELSE IF sc.fail = "select_no" THEN Raised(msgs, select, "Error")
    ELSE IF sc.fail = "search_raise" THEN Raised(msgs, search, "IMAP Error")
    ELSE IF sc.fail = "search_no" THEN Raised(msgs, search, "Error")
    ELSE IF ids = <<>> THEN EmptyInbox(msgs, search)
    ELSE
        LET latest_ids == LastN(ids, FetchLimit)
            loop == FetchLoop(box, acc, Reversed(latest_ids), 1, <<>>, search)
        IN
        IF loop.error # ""
        THEN [messages |-> loop.messages, log |-> loop.log, result |-> loop.error]
        ELSE [messages |-> loop.messages, log |-> Closed(loop.log),
              result |-> "Emails loaded. Select one on the left."]

\* the rest of on_refresh once Yield() is over, with the waiting calls yld left
RunRefresh(acc, sc, yld) ==
    \E r \in { refresh(heap, acc, sc, mailbox, messages) } :
    /\ Commit(heap, accounts, active, dlgAccount, yld, r.messages)
    /\ imap' = r.log
    /\ server' = <<>>
    /\ last' = Report("on_refresh", r.result)

\* a variant that has connected by the time it yields
BeforeYield_Connected(acc) ==
    << Cmd(IF acc.imap_port = ImapSslPort THEN "IMAP4_SSL" ELSE "IMAP4", 0, TRUE) >>

\* the commands on_refresh has sent on its connection when it calls Yield(): none, the
\* connect comes after
BeforeYield(acc) == <<>>

\* on_refresh, by what wx.GetApp().Yield() does:
\*   "quiet"  no event is pending (or, called from inside another Yield(), it returns
\*            False at once): the handler runs on to its end;
\*   "yield"  it dispatches the pending events: the handler waits, with acc captured,
\*            until their handlers have returned (on_refresh_resume);
\*   "raise"  called from inside another Yield(), it raises wxAssertionError, which the
\*            handler's except clause reports.
on_refresh(how) ==
    /\ modal = "none"
    /\ IF active = None THEN
            /\ last' = Report("on_refresh", "No active account.")
            /\ imap' = <<>>
            /\ server' = <<>>
            /\ UNCHANGED <<heap, accounts, active, dlgAccount, messages, yielding>>
       ELSE IF how = "yield" THEN
            /\ Len(yielding) < MaxYield
            /\ yielding' = Append(yielding, [acc |-> active, sent |-> BeforeYield(heap[active])])
            /\ last' = Report("on_refresh", "Loading emails from server...")
            /\ imap' = <<>>
            /\ server' = <<>>
            /\ UNCHANGED <<heap, accounts, active, dlgAccount, messages>>
       ELSE IF how = "raise" THEN
            /\ yielding # <<>>
            /\ last' = Report("on_refresh", "Error")
            /\ imap' = <<>>
            /\ server' = <<>>
            /\ UNCHANGED <<heap, accounts, active, dlgAccount, messages, yielding>>
       ELSE
            \E sc \in Scenarios : RunRefresh(active, sc, yielding)
    /\ UNCHANGED <<store, modal, old_name, mailbox>>

\* the innermost Yield() returns (every handler it dispatched has returned) and its
\* on_refresh runs to its end
on_refresh_resume ==
    /\ yielding # <<>>
    /\ modal = "none"
    /\ \E sc \in Scenarios :
            RunRefresh(yielding[Len(yielding)].acc, sc, SubSeq(yielding, 1, Len(yielding) - 1))
    /\ UNCHANGED <<store, modal, old_name, mailbox>>

\* another client empties the INBOX on the server
server_expunge ==
    /\ mailbox # <<>>
    /\ mailbox' = <<>>
    /\ imap' = <<>>
    /\ server' = <<>>
    /\ last' = Report("server_expunge", "")
    /\ UNCHANGED <<store, heap, accounts, active, messages, modal, dlgAccount, old_name,
                   yielding>>

-----------------------------------------------------------------------------
(* SMTP send *)

SmtpSslPort == 465

\* s.split(c): the pieces between the occurrences of c, always at least one
RECURSIVE Split(_, _)
Split(s, c) ==
    LET i == Find(s, c, 1) IN
    IF i = 0 THEN <<s>>
    ELSE <<SubSeq(s, 1, i - 1)>> \o Split(SubSeq(s, i + 1, Len(s)), c)

\* a variant that strips no entry: [a for a in to_addr.split(",") if a.strip()]
Recipients_Unstripped(to_addr) ==
    SelectSeq(Split(to_addr, ","), LAMBDA a : Strip(a) # <<>>)

\* a variant that drops no entry: [a.strip() for a in to_addr.split(",")]
Recipients_All(to_addr) ==
    [i \in 1..Len(Split(to_addr, ",")) |-> Strip(Split(to_addr, ",")[i])]

\* [a.strip() for a in to_addr.split(",") if a.strip()]
Recipients(to_addr) ==
    LET kept == SelectSeq(Split(to_addr, ","), LAMBDA a : Strip(a) # <<>>)
    IN  [i \in 1..Len(kept) |-> Strip(kept[i])]

\* where the server fails an SMTP session ("" for nowhere), whether it accepts
\* STARTTLS, and the addresses it refuses as recipients
SmtpFailPoints == {"", "connect", "login", "send"}
SmtpScenarios ==
    [fail : SmtpFailPoints, starttls : BOOLEAN, refuses : SUBSET {<<"a">>, <<"b">>}]

\* a variant that never tries STARTTLS
SmtpConnect_Plain(acc, sc) ==
    IF acc.smtp_port = SmtpSslPort THEN << Cmd("SMTP_SSL", 0, TRUE) >>
    ELSE << Cmd("SMTP", 0, TRUE) >>

\* smtplib.SMTP_SSL(...) on port 465, else smtplib.SMTP(...) and server.starttls(),
\* whose exception is passed over
SmtpConnect(acc, sc) ==
    IF acc.smtp_port = SmtpSslPort THEN << Cmd("SMTP_SSL", 0, TRUE) >>
    ELSE << Cmd("SMTP", 0, TRUE), Cmd("STARTTLS", 0, sc.starttls) >>

\* on_compose once the dialog returned wx.ID_OK with to_addr in it, for the account
\* fields acc and the server behaving as sc: the commands sent and what the user is
\* shown.  server.sendmail raises when the server refuses every recipient
\* (SMTPRecipientsRefused) and returns the refused ones otherwise; the code drops
\* what it returns.
send(acc, to_addr, sc) ==
    LET recipients == Recipients(to_addr)
        login   == Append(SmtpConnect(acc, sc),
                          Cmd("LOGIN", <<acc.email, acc.password>>, sc.fail # "login"))
        refused == SelectSeq(recipients, LAMBDA a : a \in sc.refuses)
        raised  == sc.fail = "send" \/ Len(refused) = Len(recipients)
        sent    == Append(login, Cmd("SENDMAIL", [to |-> recipients, refused |-> refused],
                                     ~raised))
    IN
    IF to_addr = <<>>
    THEN [log |-> <<>>, result |-> "Please enter at least one recipient."]
    ELSE IF recipients = <<>>
    THEN [log |-> <<>>, result |-> "No valid recipients found."]
    ELSE IF sc.fail = "connect" THEN [log |-> <<>>, result |-> "SMTP Error"]
    ELSE IF sc.fail = "login" THEN [log |-> login, result |-> "SMTP Error"]
    ELSE IF raised THEN [log |-> sent, result |-> "SMTP Error"]
    ELSE [log |-> Append(sent, Cmd("QUIT", 0, TRUE)), result |-> "Email sent successfully."]

\* the texts typed into the To field of the ComposeDialog
ToAddrs ==
    { <<>>, <<" ">>, <<" ", ",", " ">>, <<"a">>, <<" ", "b", " ">>,
      <<"a", ",", " ", ",", "b">>, <<"b", ",", " ", "a">>, <<",", "a", ",">> }

\* what on_compose leaves on the screen once its dialog was shown: as Report, with
\* the text of the To field
ReportSend(result, txt_to) ==
    [op |-> "on_compose", result |-> result, active |-> active, count |-> Len(messages),
     to |-> txt_to]

\* on_compose, the user typing txt_to in the ComposeDialog and pressing Send (ok) or
\* Cancel; ComposeDialog.get_values strips the To text
on_compose(ok, txt_to, sc) ==
    /\ modal = "none"
    /\ IF active = None THEN
            /\ last' = Report("on_compose", "No active account.")
            /\ server' = <<>>
       ELSE IF ~ok THEN
            /\ last' = ReportSend("cancel", txt_to)
            /\ server' = <<>>
       ELSE
            \E r \in { send(heap[active], Strip(txt_to), sc) } :
                /\ server' = r.log
                /\ last' = ReportSend(r.result, txt_to)
    /\ imap' = <<>>
    /\ UNCHANGED <<store, heap, accounts, active, messages, modal, dlgAccount, old_name,
                   yielding, mailbox>>

-----------------------------------------------------------------------------
(* Start *)

\* an INBOX of n messages of which at most one is not fetched well
Mailboxes(n) ==
    LET good == [i \in 1..n |-> "ok"] IN
    {good} \cup { [good EXCEPT ![i] = k] : i \in 1..n, k \in FetchKinds \ {"ok"} }

\* the size of the INBOX where the account operations are explored
SmallInbox == 1

\* the size of the INBOX where the refresh alone is explored
MaxIds == 25

\* the accounts.txt files the program starts from: none, an empty one, and ones it wrote
StoreFiles ==
    { [exists |-> FALSE, lines |-> <<>>],
      Saved(<<>>, <<>>),
      [exists |-> TRUE, lines |-> save_all_accounts(
          << StoredAccount(<<"b">>, <<"b">>, DefaultImapPort) >>)],
      [exists |-> TRUE, lines |-> save_all_accounts(
          << StoredAccount(<<"b">>, <<"b">>, DefaultImapPort),
             StoredAccount(<<"a", "b">>, <<"a">>, IntOf(<<"1", "4", "3">>)) >>)] }

\* a variant that takes sorted(self.accounts.keys())[-1]
FirstName_Last(names) == Sorted(names)[Len(Sorted(names))]

\* sorted(self.accounts.keys())[0]
FirstName(names) == Sorted(names)[1]

\* what EmailClientFrame.__init__ makes of the dict load_all_accounts returned: the
\* objects, self.accounts and self.active_account
Frame(loaded) ==
    LET accs == [r \in 1..Len(loaded) |-> <<loaded[r][1], r>>] IN
    [heap     |-> [r \in 1..Len(loaded) |-> loaded[r][2]],
     accounts |-> accs,
     active   |-> IF loaded # <<>> THEN DictGet(accs, FirstName(DictKeys(loaded))) ELSE None]

\* EmailClientFrame.__init__ on the file st, the server holding box
Start(st, box) ==
    LET frame == Frame(load_all_accounts(st).accounts) IN
    /\ load_all_accounts(st).ok
    /\ store = st
    /\ heap = frame.heap
    /\ accounts = frame.accounts
    /\ active = frame.active
    /\ messages = <<>>
    /\ modal = "none"
    /\ dlgAccount = None
    /\ old_name = <<>>
    /\ yielding = <<>>
    /\ mailbox = box
    /\ imap = <<>>
    /\ server = <<>>
    /\ last = [op |-> "__init__", result |-> "", active |-> None, count |-> 0]

Init == \E st \in StoreFiles : Start(st, [i \in 1..SmallInbox |-> "ok"])

Next ==
    \/ on_add_account
    \/ \E form \in Forms : on_save(form)
    \/ on_cancel
    \/ \E selected \in Names : \E ok \in BOOLEAN : on_delete_account(selected, ok)
    \/ \E account_name \in Names : on_switch_account(account_name)
    \/ on_edit_active_account
    \/ on_refresh("quiet")

Spec == Init /\ [][Next]_vars

\* One account and its refreshes, against the INBOXes of up to SmallInbox messages
\* and of FetchLimit - 1 to MaxIds messages
InitRefresh ==
    \E port \in {DefaultImapPort, IntOf(<<"1", "4", "3">>)} :
    \E n \in (0..MaxIds) \ ((SmallInbox + 1)..(FetchLimit - 2)) : \E box \in Mailboxes(n) :
        Start([exists |-> TRUE,
               lines |-> save_all_accounts(<< StoredAccount(<<"b">>, <<"b">>, port) >>)], box)

NextRefresh ==
    \/ on_refresh("quiet")
    \/ server_expunge

SpecRefresh == InitRefresh /\ [][NextRefresh]_vars

-----------------------------------------------------------------------------
(* The store alone: any file of a few lines, loaded at startup and written back *)

\* the most lines of an accounts.txt
MaxLines == 3

\* the lines an accounts.txt is made of: two headers, port lines with a number, with
\* no number and with nothing, an email with blanks around it, a name line, a blank line
StoreLines ==
    { HeaderPrefix \o <<"b">> \o HeaderSuffix,
      HeaderPrefix \o <<"a", "b">> \o HeaderSuffix,
      KeyImapPort \o <<"=", "1", "4", "3">>,
      KeyImapPort \o <<"=", "x">>,
      KeyImapPort \o <<"=">>,
      KeySmtpPort \o <<"=", " ", "4", "6", "5">>,
      KeySmtpPort \o <<"=", "x">>,
      KeyEmail \o <<" ", "=", " ", "a", " ">>,
      KeyName \o <<"=", "a", "b">>,
      <<>> }

\* the files of up to MaxLines lines
Files ==
    { [exists |-> TRUE, lines |-> l] :
        l \in UNION { [1..k -> StoreLines] : k \in 0..MaxLines } }

\* before the application object is made: the file, and nothing else
InitStore ==
    /\ store \in Files
    /\ heap = <<>>
    /\ accounts = <<>>
    /\ active = None
    /\ messages = <<>>
    /\ modal = "none"
    /\ dlgAccount = None
    /\ old_name = <<>>
    /\ yielding = <<>>
    /\ mailbox = <<>>
    /\ imap = <<>>
    /\ server = <<>>
    /\ last = [op |-> "EmailApp", result |-> "", active |-> None, count |-> 0]

\* EmailApp.OnInit: EmailClientFrame() on the file as it is; the ValueError of a
\* from_dict leaves __init__ and no frame is made
OnInit ==
    /\ last.result # "ValueError"
    /\ \E loaded \in { load_all_accounts(store) } :
        IF loaded.ok
        THEN \E frame \in { Frame(loaded.accounts) } :
                /\ heap' = frame.heap
                /\ accounts' = frame.accounts
                /\ active' = frame.active
                /\ last' = [op |-> "__init__", result |-> "", active |-> None, count |-> 0]
        ELSE /\ last' = [op |-> "__init__", result |-> "ValueError",
                         active |-> None, count |-> 0]
             /\ UNCHANGED <<heap, accounts, active>>
    /\ UNCHANGED <<store, messages, modal, dlgAccount, old_name, yielding, mailbox, imap, server>>

\* save_all_accounts(self.accounts) on the frame's dict as it is
SaveAll ==
    /\ last.op = "__init__"
    /\ last.result = ""
    /\ store' = Saved(accounts, heap)
    /\ last' = Report("save_all_accounts", "")
    /\ UNCHANGED <<heap, accounts, active, messages, modal, dlgAccount, old_name,
                   yielding, mailbox, imap, server>>

NextStore ==
    \/ OnInit
    \/ SaveAll

SpecStore == InitStore /\ [][NextStore]_vars

-----------------------------------------------------------------------------
(* Sending and refreshing: two accounts, one on the implicit-TLS ports *)

InitCompose ==
    Start([exists |-> TRUE,
           lines |-> save_all_accounts(
               << [StoredAccount(<<"b">>, <<"b">>, DefaultImapPort)
                      EXCEPT !.smtp_port = SmtpSslPort],
                  StoredAccount(<<"a", "b">>, <<"a">>, IntOf(<<"1", "4", "3">>)) >>)],
          [i \in 1..SmallInbox |-> "ok"])

NextCompose ==
    \/ \E ok \in BOOLEAN : \E txt_to \in ToAddrs : \E sc \in SmtpScenarios :
            on_compose(ok, txt_to, sc)
    \/ on_refresh("quiet")
    \/ \E account_name \in Names : on_switch_account(account_name)
    \/ \E selected \in Names : on_delete_account(selected, TRUE)

SpecCompose == InitCompose /\ [][NextCompose]_vars

-----------------------------------------------------------------------------
(* Events dispatched inside on_refresh's Yield() *)

NextYield ==
    \/ \E how \in {"quiet", "yield", "raise"} : on_refresh(how)
    \/ on_refresh_resume
    \/ \E sc \in SmtpScenarios : on_compose(TRUE, <<"a">>, sc)
    \/ \E account_name \in Names : on_switch_account(account_name)
    \/ \E selected \in Names : on_delete_account(selected, TRUE)

SpecYield == InitCompose /\ [][NextYield]_vars

-----------------------------------------------------------------------------
(* The body of a message: _extract_plain_text_body on parsed messages *)

\* the text shown for a body that could not be decoded
Placeholder ==
    << "(", "C", "o", "u", "l", "d", " ", "n", "o", "t", " ", "d", "e", "c", "o", "d", "e", " ",
       "m", "e", "s", "s", "a", "g", "e", " ", "b", "o", "d", "y", ".", ")" >>

\* an email.message.Message: its content type, its charset parameter ("" for none) and
\* its payload, a list of messages (multipart) or the bytes left once the transfer
\* encoding is undone; a byte is "a", "b" or "FF" (a byte that is not UTF-8)
Message(ctype, charset, multipart, parts, bytes) ==
    [ctype |-> ctype, charset |-> charset, multipart |-> multipart, parts |-> parts,
     bytes |-> bytes]

\* msg.is_multipart()
is_multipart(msg) == msg.multipart

\* msg.walk(): the message, then the walk of each of its parts in order
RECURSIVE walk(_)
RECURSIVE WalkParts(_, _)
walk(msg) == <<msg>> \o (IF is_multipart(msg) THEN WalkParts(msg.parts, 1) ELSE <<>>)

WalkParts(parts, i) ==
    IF i > Len(parts) THEN <<>> ELSE walk(parts[i]) \o WalkParts(parts, i + 1)

\* part.get_payload(decode=True) or b"": None, so b"", for a multipart
get_payload(part) == IF is_multipart(part) THEN <<>> ELSE part.bytes

\* the codecs Python knows, of the charsets the messages name
Codecs == {"utf-8", "latin-1"}

\* one byte decoded with errors="replace"
DecodeByte(b, charset) ==
    IF b # "FF" THEN b
    ELSE IF charset = "utf-8" THEN "U+FFFD"
    ELSE "U+00FF"

\* payload.decode(charset, errors="replace"): whether it raises LookupError, else the
\* text; b"" decodes to "" without the codec being looked up
decode(payload, charset) ==
    IF payload = <<>> THEN [raises |-> FALSE, text |-> <<>>]
    ELSE IF charset \notin Codecs THEN [raises |-> TRUE, text |-> <<>>]
    ELSE [raises |-> FALSE,
          text |-> [i \in 1..Len(payload) |-> DecodeByte(payload[i], charset)]]

\* the three lines every branch ends with, inside the try: the text of a part, or the
\* placeholder of the except clause
PartText(part) ==
    LET payload == get_payload(part)
        charset == IF part.charset = "" THEN "utf-8" ELSE part.charset
        r       == decode(payload, charset)
    IN IF r.raises THEN Placeholder ELSE r.text

\* _extract_plain_text_body(msg)
extract_plain_text_body(msg) ==
    IF is_multipart(msg)
    THEN LET parts == walk(msg)
             plain == { i \in 1..Len(parts) : parts[i].ctype = "text/plain" }
         IN IF plain # {}
            THEN PartText(parts[CHOOSE i \in plain : \A j \in plain : i <= j])
            ELSE \* the second loop returns in its first iteration
                 PartText(parts[1])
    ELSE PartText(msg)

\* the parts that are not multipart
Leaves ==
    { Message("text/plain", "", FALSE, <<>>, <<"a">>),
      Message("text/plain", "latin-1", FALSE, <<>>, <<"FF">>),
      Message("text/plain", "x-unknown", FALSE, <<>>, <<"b">>),
      Message("text/html", "", FALSE, <<>>, <<"b", "FF">>),
      Message("text/html", "", FALSE, <<>>, <<>>),
      Message("text/html", "x-unknown", FALSE, <<>>, <<"a", "b">>) }

\* the most parts of a multipart inside a multipart, and of the outer one
InnerParts == 1
MaxParts == 2

\* the multipart messages whose parts are taken from S, n at most
Multiparts(S, n) ==
    { Message("multipart/mixed", "", TRUE, p, <<>>) :
        p \in UNION { [1..k -> S] : k \in 1..n } }

\* the parsed messages: single-part ones, and multipart ones of leaves and of
\* multiparts of leaves
ParsedMessages == Leaves \cup Multiparts(Leaves \cup Multiparts(Leaves, InnerParts), MaxParts)

\* email.message_from_bytes has returned a message; nothing else is looked at
InitBody ==
    /\ mailbox \in { <<msg>> : msg \in ParsedMessages }
    /\ store = [exists |-> FALSE, lines |-> <<>>]
    /\ heap = <<>>
    /\ accounts = <<>>
    /\ active = None
    /\ messages = <<>>
    /\ modal = "none"
    /\ dlgAccount = None
    /\ old_name = <<>>
    /\ yielding = <<>>
    /\ imap = <<>>
    /\ server = <<>>
    /\ last = [op |-> "message_from_bytes", result |-> <<>>, active |-> None, count |-> 0]

\* body = _extract_plain_text_body(msg), in on_refresh's loop
ExtractBody ==
    /\ last.op = "message_from_bytes"
    /\ last' = [op |-> "_extract_plain_text_body", result |-> extract_plain_text_body(mailbox[1]),
                active |-> None, count |-> 0]
    /\ UNCHANGED <<store, heap, accounts, active, messages, modal, dlgAccount, old_name,
                   yielding, mailbox, imap, server>>

NextBody == ExtractBody

SpecBody == InitBody /\ [][NextBody]_vars

-----------------------------------------------------------------------------
(* Properties *)

\* the positions of the command c in a log
Sent(log, c) == { i \in 1..Len(log) : log[i].cmd = c }

\* a session whose SELECT and SEARCH the server answered OK
SearchOK(log) == \E i \in Sent(log, "SEARCH") : log[i].ok

\* on_refresh has just returned
Refreshed == last.op = "on_refresh"

\* the fields of the account stored under each name
Stored(accs, h) == [k \in DictKeys(accs) |-> h[DictGet(accs, k)]]

\* C1: every on_refresh that opened an IMAP connection has sent CLOSE and LOGOUT on it,
\* as its last two commands, by the time it returns, whichever way it ends.
C1_ClosesOnEveryPath ==
    (Refreshed /\ imap # <<>>) =>
        /\ Len(imap) >= 2
        /\ imap[Len(imap) - 1].cmd = "CLOSE"
        /\ imap[Len(imap)].cmd = "LOGOUT"

\* the edit dialog is saved with valid fields and a new name that is the key of a
\* different account
RenameCollides(form) ==
    /\ modal = "edit"
    /\ SaveError(form) = ""
    /\ Strip(form.txt_name) # old_name
    /\ \E i \in 1..Len(accounts) :
            accounts[i][1] = Strip(form.txt_name) /\ accounts[i][2] # active

\* C2 as stated: when the edit dialog is saved with a new name that is the key of a
\* different account, every field of both accounts equals its value before the edit and
\* each is still stored under its own name.
C2_CollisionChangesNothing ==
    [][\A form \in Forms : (RenameCollides(form) /\ on_save(form)) =>
            /\ DictKeys(accounts') = DictKeys(accounts)
            /\ Stored(accounts', heap') = Stored(accounts, heap)
            /\ DictGet(accounts', old_name) = active']_vars

\* C2 amended: when the edit dialog is saved with a new name that is the key of a
\* different account, the active account keeps its old name and its key, the other
\* accounts keep their keys and every field, and the active account's other fields take
\* the values entered in the dialog; the store is rewritten with exactly that.
C2_CollisionKeepsName ==
    [][\A form \in Forms : (RenameCollides(form) /\ on_save(form)) =>
            /\ DictKeys(accounts') = DictKeys(accounts)
            /\ DictGet(accounts', old_name) = active'
            /\ heap'[active'] = [SavedFields(form) EXCEPT !.name = old_name]
            /\ \A k \in DictKeys(accounts) \ {old_name} :
                    Stored(accounts', heap')[k] = Stored(accounts, heap)[k]
            /\ store' = Saved(accounts', heap')]_vars

\* a rejected rename to "b" of the account "ab", which now carries the email and the
\* password typed with it
C2_Witness ==
    /\ last.op = "on_edit_active_account"
    /\ last.result = "Another account already uses that name. Keeping old name."
    /\ active # None
    /\ heap[active].name = <<"a", "b">>
    /\ heap[active].email = <<"b">>
    /\ heap[active].password = <<" ">>
    /\ DictHas(accounts, <<"b">>)

\* C3: deleting the active account removes it from the dict and leaves no active account
\* and an empty message list; the other accounts stay, none of them active.
C3_DeleteActive ==
    [][\A selected \in Names :
            ( /\ active # None
              /\ \E i \in 1..Len(accounts) : accounts[i] = <<selected, active>>
              /\ on_delete_account(selected, TRUE) ) =>
                /\ DictKeys(accounts') = DictKeys(accounts) \ {selected}
                /\ \A k \in DictKeys(accounts') :
                        Stored(accounts', heap')[k] = Stored(accounts, heap)[k]
                /\ active' = None
                /\ messages' = <<>>]_vars

\* the active account, with messages cached, was deleted while another account stayed
C3_Witness ==
    /\ last.op = "on_delete_account"
    /\ last.active # None
    /\ last.count > 0
    /\ active = None
    /\ messages = <<>>
    /\ accounts # <<>>

\* C4: deleting an account other than the active one removes only that account: the
\* active account is the same object with the same fields, every other account is
\* unchanged, and so is the message list.
C4_DeleteOther ==
    [][\A selected \in Names :
            ( /\ \E i \in 1..Len(accounts) :
                    accounts[i][1] = selected /\ accounts[i][2] # active
              /\ on_delete_account(selected, TRUE) ) =>
                /\ DictKeys(accounts') = DictKeys(accounts) \ {selected}
                /\ \A k \in DictKeys(accounts') :
                        /\ Stored(accounts', heap')[k] = Stored(accounts, heap)[k]
                        /\ (DictGet(accounts', k) = active') <=> (DictGet(accounts, k) = active)
                /\ (active' = None) <=> (active = None)
                /\ active # None => heap'[active'] = heap[active]
                /\ Len(messages') = Len(messages)
                /\ \A i \in 1..Len(messages) :
                        /\ messages'[i].id = messages[i].id
                        /\ (messages'[i].src = active') <=> (messages[i].src = active)]_vars

\* an account that was not the active one was deleted while messages were cached and
\* a third account stayed
C4_Witness ==
    /\ last.op = "on_delete_account"
    /\ last.result = ""
    /\ last.active # None
    /\ last.count > 0
    /\ active # None
    /\ Len(messages) = last.count
    /\ Len(accounts) >= 2

\* C5: on_switch_account with a name that is no key of the dict reports the failure and
\* leaves the active account and the message list as they were; with a known name it
\* makes that account the active one and empties the message list, also when that
\* account was active already.
C5_Switch ==
    [][\A account_name \in Names : on_switch_account(account_name) =>
            /\ accounts' = accounts
            /\ Stored(accounts', heap') = Stored(accounts, heap)
            /\ IF account_name \notin DictKeys(accounts)
               THEN /\ last'.result = "Account not found."
                    /\ active' = active
                    /\ messages' = messages
               ELSE /\ active' = DictGet(accounts, account_name)
                    /\ messages' = <<>>]_vars

\* a switch to an unknown name while an account was active with messages cached
C5_Witness ==
    /\ last.op = "on_switch_account"
    /\ last.result = "Account not found."
    /\ last.active # None
    /\ last.count > 0
    /\ active = last.active
    /\ Len(messages) = last.count

\* C6: adding an account is rejected, with the dict, the store and the active account
\* unchanged, when its name is empty or already a key; otherwise the account is inserted
\* under its name, the store is rewritten, and it becomes the active account exactly
\* when there was none.  (The form's email and ports are valid.)
C6_Add ==
    [][\A form \in Forms :
            ( /\ modal = "add"
              /\ SaveError(form) \in {"", "Account name cannot be empty."}
              /\ on_save(form) ) =>
                LET name == Strip(form.txt_name) IN
                IF name = <<>> \/ name \in DictKeys(accounts)
                THEN /\ accounts' = accounts
                     /\ Stored(accounts', heap') = Stored(accounts, heap)
                     /\ store' = store
                     /\ active' = active
                ELSE /\ DictKeys(accounts') = DictKeys(accounts) \cup {name}
                     /\ Stored(accounts', heap')[name] = SavedFields(form)
                     /\ \A k \in DictKeys(accounts) :
                            Stored(accounts', heap')[k] = Stored(accounts, heap)[k]
                     /\ store' = Saved(accounts', heap')
                     /\ (active' = DictGet(accounts', name)) <=> (active = None)
                     /\ active # None => active' = active]_vars

\* an account was added while another one was active, which stayed the active one
C6_Witness ==
    /\ last.op = "on_add_account"
    /\ last.result = ""
    /\ last.active # None
    /\ active = last.active
    /\ Len(accounts) >= 2
    /\ accounts[Len(accounts)][2] # active

\* C7: at startup the message list is empty; with accounts loaded, the active account is
\* the one whose name is the smallest of the loaded names in the order of Python's
\* strings; with no file or an empty one there is no active account.
C7_Startup ==
    last.op = "__init__" =>
        /\ messages = <<>>
        /\ accounts = <<>> <=> load_all_accounts(store).accounts = <<>>
        /\ ~store.exists => accounts = <<>>
        /\ IF accounts = <<>> THEN active = None
           ELSE /\ active # None
                /\ \E i \in 1..Len(accounts) : accounts[i] = <<heap[active].name, active>>
                /\ \A k \in DictKeys(accounts) \ {heap[active].name} :
                        StrLess(heap[active].name, k)

\* a start from a file whose second account has the smaller name
C7_Witness ==
    /\ last.op = "__init__"
    /\ Len(accounts) = 2
    /\ active = accounts[2][2]
    /\ StrLess(accounts[2][1], accounts[1][1])

\* C8: an on_refresh whose SEARCH is answered OK with no identifier reports no error,
\* leaves the message list empty whatever it held before, and sends no FETCH.
C8_EmptyInbox ==
    (Refreshed /\ SearchOK(imap) /\ mailbox = <<>>) =>
        /\ last.result = "INBOX is empty."
        /\ messages = <<>>
        /\ Sent(imap, "FETCH") = {}

\* a refresh of an empty INBOX that found messages cached
C8_Witness ==
    /\ Refreshed
    /\ SearchOK(imap)
    /\ mailbox = <<>>
    /\ last.count > 0
    /\ messages = <<>>

\* C9: when SEARCH returns the identifiers 1..n and every FETCH is answered well,
\* on_refresh leaves min(n, 20) messages, those of the last min(n, 20) identifiers,
\* newest first, and has fetched no other identifier.
C9_LatestTwenty ==
    (Refreshed /\ SearchOK(imap) /\ \A i \in 1..Len(mailbox) : mailbox[i] = "ok") =>
        LET n == Len(mailbox)
            m == IF n < 20 THEN n ELSE 20
        IN
        /\ last.result \notin {"Error", "IMAP Error"}
        /\ Len(messages) = m
        /\ \A i \in 1..m : messages[i].id = n + 1 - i
        /\ { imap[i].arg : i \in Sent(imap, "FETCH") } = (n - m + 1)..n

\* a refresh of 25 messages that left 20 and never fetched the identifiers 1 to 5
C9_Witness ==
    /\ Refreshed
    /\ Len(mailbox) = 25
    /\ Len(messages) = 20
    /\ messages[1].id = 25
    /\ messages[20].id = 6
    /\ \A i \in Sent(imap, "FETCH") : imap[i].arg > 5

\* the identifiers on_refresh is to fetch, newest first
Slice == Reversed(LastN([i \in 1..Len(mailbox) |-> i], 20))

\* C10: when the FETCH of an identifier is answered non-OK, with nothing, or with a
\* first element that is no (header, bytes) pair, on_refresh skips that message, still
\* fetches every other identifier of the slice, keeps those answered well, and reports
\* no error.
C10_BadMessageSkipped ==
    (Refreshed /\ SearchOK(imap) /\ \A i \in 1..Len(mailbox) : mailbox[i] # "raise") =>
        /\ last.result \notin {"Error", "IMAP Error"}
        /\ { imap[i].arg : i \in Sent(imap, "FETCH") }
                = { Slice[i] : i \in 1..Len(Slice) }
        /\ { messages[i].id : i \in 1..Len(messages) }
                = { Slice[i] : i \in { j \in 1..Len(Slice) : mailbox[Slice[j]] = "ok" } }

\* the frame's constructor has just run, or failed, on the file in store
Constructed == last.op = "__init__"

\* the names of the file's section headers
HeaderNames(st) ==
    { nm \in { SubSeq(Strip(st.lines[i]), Len(HeaderPrefix) + 1, Len(Strip(st.lines[i])) - 1) :
                 i \in { j \in 1..Len(st.lines) :
                            /\ StartsWith(Strip(st.lines[j]), HeaderPrefix)
                            /\ EndsWith(Strip(st.lines[j]), HeaderSuffix) } } :
        nm # <<>> }

\* the values of the file's key=value lines for key
ValuesOf(st, key) ==
    { Strip(SubSeq(Strip(st.lines[i]), Len(key) + 2, Len(Strip(st.lines[i])))) :
        i \in { j \in 1..Len(st.lines) :
                    StartsWith(Strip(st.lines[j]), key \o <<"=">>) } }

\* the numbers among them
NumbersOf(st, key) == { IntOf(v) : v \in { w \in ValuesOf(st, key) : IsInt(w) } }

\* C11: whatever the port lines of the file (missing, empty, no number), the load
\* completes, returns an account for every header of the file, and gives each account
\* a port that is a number of the file or else the default, 993 for IMAP and 587 for SMTP.
C11_PortsFallBack ==
    Constructed =>
        /\ last.result = ""
        /\ DictKeys(accounts) = HeaderNames(store)
        /\ \A i \in 1..Len(accounts) :
                /\ heap[accounts[i][2]].imap_port \in NumbersOf(store, KeyImapPort) \cup {993}
                /\ heap[accounts[i][2]].smtp_port \in NumbersOf(store, KeySmtpPort) \cup {587}

\* a file in the store's format: blank lines, headers, and lines of the six keys, a
\* port's value being a number or nothing
WellFormed(st) ==
    \A i \in 1..Len(st.lines) :
        LET line == Strip(st.lines[i])
            eq   == Find(line, "=", 1)
            key  == Strip(SubSeq(line, 1, eq - 1))
            val  == Strip(SubSeq(line, eq + 1, Len(line)))
        IN
        \/ line = <<>>
        \/ StartsWith(line, HeaderPrefix) /\ EndsWith(line, HeaderSuffix)
        \/ /\ eq > 0
           /\ key \in {KeyEmail, KeyPassword, KeyImapServer, KeySmtpServer}
        \/ /\ eq > 0
           /\ key \in {KeyImapPort, KeySmtpPort}
           /\ val = <<>> \/ IsInt(val)

\* C12: for a well-formed file, saving what the load returned and loading again gives
\* the same names and, for each, the same email, password, servers and ports.
C12_RoundTrip ==
    (Constructed /\ last.result = "" /\ WellFormed(store)) =>
        LET again == load_all_accounts(Saved(accounts, heap)) IN
        /\ again.ok
        /\ DictKeys(again.accounts) = DictKeys(accounts)
        /\ \A k \in DictKeys(accounts) :
            LET a == DictGet(again.accounts, k)
                b == heap[DictGet(accounts, k)]
            IN
            /\ a.email = b.email
            /\ a.password = b.password
            /\ a.imap_server = b.imap_server
            /\ a.imap_port = b.imap_port
            /\ a.smtp_server = b.smtp_server
            /\ a.smtp_port = b.smtp_port

\* a well-formed file of two accounts, one on IMAP port 143, that is not written the
\* way save_all_accounts writes it
C12_Witness ==
    /\ Constructed
    /\ last.result = ""
    /\ WellFormed(store)
    /\ Len(accounts) = 2
    /\ \E i \in 1..2 : heap[accounts[i][2]].imap_port = 143
    /\ store # Saved(accounts, heap)

\* C19: every account the load returned has, for its name, the argument of a section
\* header of the file and the key it is stored under, whatever lines its block holds.
C19_NameIsHeaderAndKey ==
    (Constructed /\ last.result = "") =>
        \A i \in 1..Len(accounts) :
            /\ accounts[i][1] \in HeaderNames(store)
            /\ heap[accounts[i][2]].name = accounts[i][1]

\* on_compose has just returned from a dialog closed with Send
SendPressed ==
    /\ last.op = "on_compose"
    /\ last.result \notin {"No active account.", "cancel"}

\* the entries of a comma-separated text from position i on, cur being the entry read
\* so far: each trimmed, the empty ones left out
RECURSIVE Entries(_, _, _)
Entries(text, i, cur) ==
    LET entry == IF Strip(cur) = <<>> THEN <<>> ELSE << Strip(cur) >> IN
    IF i > Len(text) THEN entry
    ELSE IF text[i] = "," THEN entry \o Entries(text, i + 1, <<>>)
    ELSE Entries(text, i + 1, Append(cur, text[i]))

\* C13: on_compose hands sendmail exactly the entries of the To text, split on commas,
\* trimmed, the empty ones dropped, in their order, and does so once whenever the
\* login succeeded; "a, ,b" is sent to a and b.
C13_RecipientsSplit ==
    SendPressed =>
        /\ \A i \in Sent(server, "SENDMAIL") : server[i].arg.to = Entries(last.to, 1, <<>>)
        /\ (\E i \in Sent(server, "LOGIN") : server[i].ok)
                => Cardinality(Sent(server, "SENDMAIL")) = 1
        /\ (last.to = <<"a", ",", " ", ",", "b">> /\ Sent(server, "SENDMAIL") # {})
                => \A i \in Sent(server, "SENDMAIL") : server[i].arg.to = << <<"a">>, <<"b">> >>

\* "a, ,b" was sent, to a and to b
C13_Witness ==
    /\ SendPressed
    /\ last.to = <<"a", ",", " ", ",", "b">>
    /\ last.result = "Email sent successfully."
    /\ \E i \in Sent(server, "SENDMAIL") : server[i].arg.to = << <<"a">>, <<"b">> >>

\* C14: when no entry of the To text is left after trimming, on_compose shows a
\* validation error and has sent nothing: no connection, no login, no sendmail.
C14_NoRecipients ==
    (SendPressed /\ Entries(last.to, 1, <<>>) = <<>>) =>
        /\ last.result \in {"Please enter at least one recipient.",
                            "No valid recipients found."}
        /\ server = <<>>

\* " , " was turned down
C14_Witness ==
    /\ SendPressed
    /\ last.to = <<" ", ",", " ">>
    /\ last.result = "No valid recipients found."
    /\ server = <<>>

\* C15: when the server accepts a recipient of a send and refuses another, on_compose
\* ends in an error; it does not report success.
C15_PartialRefusal ==
    (SendPressed /\ \E i \in Sent(server, "SENDMAIL") :
                        /\ server[i].arg.refused # <<>>
                        /\ Len(server[i].arg.refused) < Len(server[i].arg.to)) =>
        /\ last.result = "SMTP Error"

\* C16: every on_compose that opened an SMTP connection has sent QUIT on it, as its
\* last command, by the time it returns.
C16_QuitsOnEveryPath ==
    (SendPressed /\ server # <<>>) => server[Len(server)].cmd = "QUIT"

\* imap.login was rejected in the session of the log
LoginRejectedIn(log) == \E i \in Sent(log, "LOGIN") : ~log[i].ok

\* C17: an on_refresh whose login is rejected shows an error, has tried the login once,
\* has sent no SELECT, SEARCH or FETCH, and leaves the message list as it was.
C17_LoginRejected ==
    [][(last'.op = "on_refresh" /\ LoginRejectedIn(imap')) =>
            /\ last'.result \in {"IMAP Error", "Error"}
            /\ Cardinality(Sent(imap', "LOGIN")) = 1
            /\ imap'[Len(imap')].cmd = "LOGIN"
            /\ Sent(imap', "SELECT") \cup Sent(imap', "SEARCH") \cup Sent(imap', "FETCH") = {}
            /\ messages' = messages]_vars

\* a rejected login that found messages cached, and left them
C17_Witness ==
    /\ Refreshed
    /\ LoginRejectedIn(imap)
    /\ last.count > 0
    /\ Len(messages) = last.count

\* how the session of a log was opened, for an account on `port`, implicit TLS being
\* on sslPort: implicit TLS (secure) exactly on that port; else plain, then one STARTTLS,
\* then, whatever STARTTLS gave, the login with the account's email and password
OpenedAsClaimed(log, port, sslPort, secure, plain, acc) ==
    IF port = sslPort
    THEN /\ log[1].cmd = secure
         /\ Sent(log, "STARTTLS") = {}
         /\ Len(log) >= 2
         /\ log[2].cmd = "LOGIN"
         /\ log[2].arg = <<acc.email, acc.password>>
    ELSE /\ log[1].cmd = plain
         /\ Sent(log, "STARTTLS") = {2}
         /\ Len(log) >= 3
         /\ log[3].cmd = "LOGIN"
         /\ log[3].arg = <<acc.email, acc.password>>

\* C20: a refresh opens its connection with implicit TLS exactly on IMAP port 993 and a
\* send exactly on SMTP port 465; on any other port the connection is plain, STARTTLS is
\* tried once before the login, and the login with the account's email and password
\* follows whether or not STARTTLS succeeded.
C20_ConnectionSecurity ==
    /\ (Refreshed /\ imap # <<>>) =>
            OpenedAsClaimed(imap, heap[active].imap_port, 993, "IMAP4_SSL", "IMAP4",
                            heap[active])
    /\ (SendPressed /\ server # <<>>) =>
            OpenedAsClaimed(server, heap[active].smtp_port, 465, "SMTP_SSL", "SMTP",
                            heap[active])

\* a refresh on port 143 whose STARTTLS failed and whose login went through
C20_Witness ==
    /\ Refreshed
    /\ heap[active].imap_port = 143
    /\ Len(imap) >= 3
    /\ imap[2] = Cmd("STARTTLS", 0, FALSE)
    /\ imap[3] = Cmd("LOGIN", <<heap[active].email, heap[active].password>>, TRUE)
    /\ last.result = "Emails loaded. Select one on the left."

\* the handler that ran last had a connection open
Connected == imap # <<>> \/ server # <<>>

\* C18: whatever events are dispatched, also inside the Yield() of an on_refresh, a
\* refresh or a send only has its connection open while no other refresh or send has
\* one: the calls that wait in Yield() while it runs have sent nothing yet.
C18_OneInFlight ==
    Connected => \A i \in 1..Len(yielding) : yielding[i].sent = <<>>

\* a refresh or a send ran, with its connection, inside the Yield() of a refresh of
\* the same account
C18_Witness ==
    /\ Connected
    /\ yielding # <<>>
    /\ yielding[Len(yielding)].acc = active

\* the least element of a non-empty set of positions
First(S) == CHOOSE i \in S : \A j \in S : i <= j

\* C21: on a multipart message _extract_plain_text_body returns the decoded payload of
\* the first part of the walk whose content type is text/plain; when no part is
\* text/plain, that of the first part that has a payload to decode (a part that is not
\* a multipart container; read either as the first such part or as the first one whose
\* decoding succeeds); it returns a text on every message, the placeholder where the
\* decoding fails.
C21_FirstPlainElseFirstDecodable ==
    (last.op = "_extract_plain_text_body" /\ is_multipart(mailbox[1])) =>
        LET parts     == walk(mailbox[1])
            plain     == { i \in 1..Len(parts) : parts[i].ctype = "text/plain" }
            leaves    == { i \in 1..Len(parts) : ~is_multipart(parts[i]) }
            decodable == { i \in leaves : PartText(parts[i]) # Placeholder }
        IN
        IF plain # {} THEN last.result = PartText(parts[First(plain)])
        ELSE \/ last.result = PartText(parts[First(leaves)])
             \/ decodable # {} /\ last.result = PartText(parts[First(decodable)])

\* C22: in every state of the account manager each key of self.accounts maps to an
\* account whose name is that key, no two keys map to the same object, and the active
\* account, when there is one, is the object self.accounts holds under its name.
C22_KeysAreNames ==
    /\ \A i \in 1..Len(accounts) : heap[accounts[i][2]].name = accounts[i][1]
    /\ \A i, j \in 1..Len(accounts) : i # j => accounts[i][2] # accounts[j][2]
    /\ active # None =>
            /\ DictHas(accounts, heap[active].name)
            /\ DictGet(accounts, heap[active].name) = active

\* C23: whenever self.messages is not empty, every entry of it was fetched from the
\* account that is active now, whatever Switch Account and Delete Account events are
\* dispatched while an on_refresh waits in Yield() with its account captured.
C23_MessagesOfActive ==
    \A i \in 1..Len(messages) : active # None /\ messages[i].src = active

\* the accounts a start of the program would read from the file st, by name
Persisted(st) ==
    LET loaded == load_all_accounts(st).accounts IN
    [k \in DictKeys(loaded) |-> DictGet(loaded, k)]

\* an add, delete or edit has just run to its end (its dialog is closed)
AccountsChanged ==
    /\ last.op \in {"on_add_account", "on_delete_account", "on_edit_active_account"}
    /\ modal = "none"

\* the handlers that are not to write the store
ReadOnly == {"on_switch_account", "on_refresh", "on_compose"}

\* C24: after every completed add, delete or edit (an edit whose rename was rejected
\* included) accounts.txt holds exactly the accounts of self.accounts, each with the
\* field values it has in memory; and on_switch_account, on_refresh and on_compose
\* leave accounts.txt as it is.
C24_StoreHoldsMapping ==
    /\ [](AccountsChanged =>
            /\ load_all_accounts(store).ok
            /\ Persisted(store) = Stored(accounts, heap))
    /\ [][last'.op \in ReadOnly => store' = store]_vars

\* an on_refresh session that ended in an error box before any FETCH was sent
FailedBeforeFetch(log, result) ==
    /\ result \in {"Error", "IMAP Error"}
    /\ Sent(log, "FETCH") = {}

\* C25: an on_refresh that ends in an error raised at the connect, the login, SELECT or
\* SEARCH, before any message is fetched, leaves self.messages, self.accounts (and the
\* accounts' fields) and self.active_account exactly as they were before it.
C25_FailedRefreshKeepsAll ==
    [][(last'.op = "on_refresh" /\ FailedBeforeFetch(imap', last'.result)) =>
            /\ messages' = messages
            /\ accounts' = accounts
            /\ heap' = heap
            /\ active' = active]_vars

\* a refresh of one of two accounts that failed at SELECT or SEARCH with a message
\* cached, and left it
C25_Witness ==
    /\ Refreshed
    /\ FailedBeforeFetch(imap, last.result)
    /\ Sent(imap, "SELECT") # {}
    /\ ~SearchOK(imap)
    /\ Len(accounts) = 2
    /\ last.count > 0
    /\ Len(messages) = last.count

====
